---------------------------- MODULE Spec2Model ----------------------------
(***************************************************************************)
(* Model of the task handler of tds-project-1: the request gateway         *)
(* (app/main.py handle_task), the round orchestrator (process_task), the   *)
(* repository publisher (services/github_service.py), the generation       *)
(* client (services/llm_service.py), the evaluation notifier               *)
(* (services/evaluator.py) and the retry policy (utils/retry.py).          *)
(*                                                                         *)
(* The hosting platform is a key-value file store with a commit counter,   *)
(* the generation backend and the callback are nondeterministic            *)
(* collaborators.  Spec runs one background round at a time (requests      *)
(* arrive when no round is in progress); RetrySpec runs the retry          *)
(* decorator around an arbitrary fallible operation.                       *)
(***************************************************************************)
EXTENDS Naturals, Sequences, FiniteSets

(***************************************************************************)
(* Bounds of the model.                                                    *)
(***************************************************************************)
MaxRequests == 3
MaxRound == 3

(***************************************************************************)
(* Program constants.                                                      *)
(***************************************************************************)
MaxAttempts == 10
WaitMultiplier == 1
WaitMin == 1
WaitMax == 60
ExpBase == 2
StatusUnauthorized == 401
StatusOk == 200

SecretKey == "secret"
Secrets == {SecretKey, "wrong_secret"}
Account == "account"
Tasks == {"demo", "other"}
\* The tasks whose rounds Spec submits.
Submitted == {"demo"}
Rounds == 1..MaxRound
Briefs == {"counter app"}

RootPage == "index.html"
ReadmePath == "README.md"
LicensePath == "LICENSE"
Paths == {RootPage, "app.js", ReadmePath, LicensePath}

(***************************************************************************)
(* File contents are triples <<kind, text, round>>.                        *)
(***************************************************************************)
Absent == <<"absent", "", 0>>
LLMReadme == <<"llm", "readme", 0>>
NoFiles == [p \in Paths |-> Absent]

VARIABLES reqs, background, run, last, repos, files, commits, pages, rounds, completed,
          retry, prompt, conc

vars == <<reqs, background, run, last, repos, files, commits, pages, rounds, completed,
          retry, prompt, conc>>
platform == <<repos, files, commits, pages, rounds>>

(***************************************************************************)
(* URLs, as the sequence of their parts.                                   *)
(***************************************************************************)
\* The html_url the platform reports for a repository of `owner`.
HtmlUrl(owner, name) == <<"https://github.com/", owner, "/", name>>

\* main.py:75, the URL of an existing repository, built without a query.
RepoUrlPattern(repo_name) == <<"https://github.com/", Account, "/", repo_name>>

\* Variant: the site address without its trailing slash.
PagesUrlNoSlash(repo_name) == <<"https://", Account, ".github.io/", repo_name>>

\* github_service.py:113
PagesUrl(repo_name) == <<"https://", Account, ".github.io/", repo_name, "/">>

NoUrl == <<>>


(***************************************************************************)
(* The hosting platform's content API on one repository's files `fs`, a    *)
(* function from path to content.  The content hash of a file is its       *)
(* content; every successful write is one commit.                          *)
(***************************************************************************)
Sha(content) == content

\* repo.get_contents(path): the content, or Absent for the 404 signal.
GetContents(fs, path) == fs[path]

\* Variant: the update is accepted whatever hash it carries.
UpdateFileForced(fs, path, content, sha) ==
    IF fs[path] # Absent
    THEN [ok |-> TRUE, files |-> [fs EXCEPT ![path] = content]]
    ELSE [ok |-> FALSE, files |-> fs]

\* repo.update_file(path, message, content, sha): rejected unless the file
\* exists and `sha` is its current hash.
UpdateFile(fs, path, content, sha) ==
    IF fs[path] # Absent /\ Sha(fs[path]) = sha
    THEN [ok |-> TRUE, files |-> [fs EXCEPT ![path] = content]]
    ELSE [ok |-> FALSE, files |-> fs]

\* repo.create_file(path, message, content): rejected when the path exists.
CreateFile(fs, path, content) ==
    IF fs[path] = Absent
    THEN [ok |-> TRUE, files |-> [fs EXCEPT ![path] = content]]
    ELSE [ok |-> FALSE, files |-> fs]

\* Variant: a path that already exists is left as it is.
UpsertKeepsExisting(fs, path, content) ==
    IF GetContents(fs, path) # Absent
    THEN [ok |-> TRUE, files |-> fs]
    ELSE CreateFile(fs, path, content)

\* Variant: the write replaces the whole tree by the one file.
UpsertReplacesTree(fs, path, content) ==
    [ok |-> TRUE, files |-> [p \in DOMAIN fs |-> IF p = path THEN content ELSE Absent]]

\* Variant: the path is created without being looked up first.
UpsertAlwaysCreates(fs, path, content) == CreateFile(fs, path, content)

\* github_service.py:57-79 and 151-167: look the path up, update it with the
\* hash just read when it exists, create it on the 404 signal.
UpsertFile(fs, path, content) ==
    LET existing == GetContents(fs, path) IN
    IF existing # Absent
    THEN UpdateFile(fs, path, content, Sha(existing))
    ELSE CreateFile(fs, path, content)

\* github_service.py:125-146, the fixed license text with the account's name.
MitLicense == <<"mit", Account, 0>>

\* llm_service.py:259, the fallback README built from task, brief and round.
FallbackReadme(task_name, brief, round_num) ==
    <<"fallback", task_name, brief, round_num>>

PresentPaths(fs) == {p \in Paths : fs[p] # Absent}

(***************************************************************************)
(* Round history kept in the repository: the list of the Round Records     *)
(* stored so far.                                                          *)
(***************************************************************************)
RoundRecord(round, brief) == [round |-> round, brief |-> brief]

RecordsOf(rs, round) == SelectSeq(rs, LAMBDA rec : rec.round = round)

RECURSIVE RecordsBelow(_, _, _)
\* The records of `rs` for rounds k..upto-1, in ascending round order.
RecordsBelow(rs, k, upto) ==
    IF k >= upto THEN <<>>
    ELSE RecordsOf(rs, k) \o RecordsBelow(rs, k + 1, upto)

\* Variant: only the record of the round before is read back.
PreviousRoundOnly(rs, round) == RecordsBelow(rs, round - 1, round)

\* get_previous_rounds_data(repo_name, round): every stored record of an
\* earlier round, ordered by round.
PreviousRoundsData(rs, round) == RecordsBelow(rs, 1, round)

\* store_round_data(repo_name, round, brief, checks, attachments): the record
\* of `round` replaces the one stored for that round, or is added.
StoreRoundData(rs, round, brief) ==
    IF \E i \in 1..Len(rs) : rs[i].round = round
    THEN [i \in 1..Len(rs) |->
            IF rs[i].round = round THEN RoundRecord(round, brief) ELSE rs[i]]
    ELSE Append(rs, RoundRecord(round, brief))

StoredRounds(rs) == {rs[i].round : i \in 1..Len(rs)}

(***************************************************************************)
(* Generation backend outputs: the parsed JSON object, as its (path,       *)
(* content) pairs in insertion order.  The last one lacks the root page.   *)
(***************************************************************************)
File(path, content) == [path |-> path, content |-> content]

GenOutputs ==
    {<<File(RootPage, <<"llm", "v1", 0>>)>>,
     <<File(RootPage, <<"llm", "v2", 0>>), File("app.js", <<"llm", "v2", 0>>)>>,
     <<File("app.js", <<"llm", "v1", 0>>)>>}

HasPath(fileseq, path) == \E i \in 1..Len(fileseq) : fileseq[i].path = path

\* Variant: the parsed output is returned without the check.
HasRootPageUnchecked(fileseq) == TRUE

\* llm_service.py:50, the root page must be a key of the parsed output.
HasRootPage(fileseq) == HasPath(fileseq, RootPage)

\* main.py:66, files["README.md"] = readme: replaces the key in place when
\* the output already has it, appends it otherwise.
SetReadme(fileseq, readme) ==
    IF HasPath(fileseq, ReadmePath)
    THEN [i \in 1..Len(fileseq) |->
            IF fileseq[i].path = ReadmePath
            THEN File(ReadmePath, readme) ELSE fileseq[i]]
    ELSE Append(fileseq, File(ReadmePath, readme))

(***************************************************************************)
(* Retry policy (utils/retry.py), with tenacity's semantics.               *)
(***************************************************************************)
\* Error kinds an operation can raise: httpx.TransportError and
\* httpx.HTTPStatusError (both httpx.HTTPError), the builtin
\* ConnectionError, and any other exception.
ErrKinds == {"transport", "status", "connection", "other"}
IsHTTPError(kind) == kind \in {"transport", "status"}

\* Variant: every exception is retried.
RetryIfAnyException(kind) == kind \in ErrKinds

\* retry.py:18, retry_if_exception_type((httpx.HTTPError, ConnectionError)).
RetryIfExceptionType(kind) == IsHTTPError(kind) \/ kind = "connection"

\* Variant: stops one attempt late.
StopAfterAttemptLate(attempt_number, max_attempts) == attempt_number > max_attempts

\* retry.py:20, stop_after_attempt(max_attempts).
StopAfterAttempt(attempt_number, max_attempts) == attempt_number >= max_attempts

RECURSIVE Pow(_, _)
Pow(b, e) == IF e = 0 THEN 1 ELSE b * Pow(b, e - 1)

Min2(a, b) == IF a <= b THEN a ELSE b
Max2(a, b) == IF a >= b THEN a ELSE b

\* Variant: the exponent's sign is wrong, the delay halves from the cap.
WaitExponentialInverted(attempt_number) ==
    Max2(Max2(0, WaitMin),
         Min2(WaitMultiplier * (WaitMax \div Pow(ExpBase, attempt_number - 1)), WaitMax))

\* Variant: the exponent is the number of the failed attempt, so the first
\* sleep is of 2 seconds.
WaitExponentialFromTwo(attempt_number) ==
    Max2(Max2(0, WaitMin),
         Min2(WaitMultiplier * Pow(ExpBase, attempt_number), WaitMax))

\* retry.py:19, wait_exponential(multiplier=1, min=1, max=60): the sleep
\* after attempt `attempt_number` failed.
WaitExponential(attempt_number) ==
    Max2(Max2(0, WaitMin),
         Min2(WaitMultiplier * Pow(ExpBase, attempt_number - 1), WaitMax))

\* One pass of tenacity's loop after an attempt ended with `outcome`
\* ("ok" or an error kind): return the value, re-raise the operation's error
\* (not retryable), raise RetryError (attempts exhausted; reraise is not
\* set), or sleep and try again.
RetryDecision(outcome, attempt_number, max_attempts) ==
    IF outcome = "ok" THEN "return"
    ELSE IF ~RetryIfExceptionType(outcome) THEN "raise"
    ELSE IF StopAfterAttempt(attempt_number, max_attempts) THEN "retry_error"
    ELSE "sleep"

(***************************************************************************)
(* State.                                                                  *)
(*   reqs      every request the gateway received, with its response and   *)
(*             the fate of the run it scheduled                            *)
(*   background  the background tasks added and not yet started            *)
(*   run       the background run of process_task                          *)
(*   last      what is kept of the run that ended before it                *)
(*   repos, files, commits, pages, rounds   the hosting platform           *)
(*   completed per task, the rounds whose run logged its completion        *)
(*   retry     a call through the retry decorator (RetrySpec)              *)
(*   prompt    a call of _create_prompt (PromptSpec)                       *)
(* In a run, `status` is the status class of the response that             *)
(* send_evaluation returned on, `lookup` what the repository lookup of     *)
(* create_repository met.                                                  *)
(***************************************************************************)
IdleRun ==
    [req |-> 0, pc |-> "idle", task |-> "", round |-> 0, brief |-> "",
     previous_rounds |-> <<>>, repo_files |-> NoFiles, files |-> <<>>,
     repo_url |-> NoUrl, commit_sha |-> 0, pages_url |-> NoUrl,
     idx |-> 0, attempt_number |-> 0, posts |-> 0, delivered |-> 0,
     body |-> [task |-> "", round |-> 0, repo_url |-> NoUrl,
               commit_sha |-> 0, pages_url |-> NoUrl],
     create_calls |-> 0, faults |-> 0, failed_at |-> "", error |-> "",
     before |-> NoFiles, rounds_before |-> <<>>, status |-> "", lookup |-> ""]

\* Variant: the bootstrap is skipped for round 2 as well.
FirstStepFromRoundThree(round) == IF round > 2 THEN "boot_rounds" ELSE "generate"

\* main.py:41-48, the first step of a run: the bootstrap exactly for round >= 2.
FirstStep(round) == IF round >= 2 THEN "boot_rounds" ELSE "generate"

NewRun(id, task, round, brief) ==
    [IdleRun EXCEPT !.req = id, !.pc = FirstStep(round), !.task = task,
                    !.round = round, !.brief = brief]

IdleRetry ==
    [state |-> "idle", attempt_number |-> 0, calls |-> 0, errors |-> <<>>,
     sleeps |-> <<>>, result |-> "", raised |-> <<>>]

NoPrompt ==
    [state |-> "idle", brief |-> "", round_num |-> 0, previous_rounds |-> <<>>,
     repo_files |-> <<>>, checks |-> <<>>, text |-> <<>>]

\* The service after construction, with no request received.
\* The runs of two requests accepted at the same time.
MaxWorkers == 2
Workers == 1..MaxWorkers

\* A run of process_task among concurrent ones; `out` is what the backend
\* returns to it, `lookup` what its lookup of the repository met, `seen`
\* what its last presence check of a path read.
IdleWorker ==
    [pc |-> "idle", task |-> "", round |-> 0, brief |-> "", out |-> <<>>,
     previous_rounds |-> <<>>, repo_files |-> NoFiles, files |-> <<>>,
     repo_url |-> NoUrl, commit_sha |-> 0, pages_url |-> NoUrl, idx |-> 0,
     lookup |-> "", seen |-> Absent, delivered |-> 0, body |-> IdleRun.body,
     failed_at |-> "", error |-> ""]

\* No concurrent runs.  `colocated`: the runs are background tasks of one
\* event loop; `holder`: the run that holds that event loop; `published`:
\* the tasks whose round 1 was completed before the two requests arrived.
NoConc ==
    [colocated |-> FALSE, holder |-> 0, published |-> {},
     runs |-> [w \in Workers |-> IdleWorker]]

InitService ==
    /\ reqs = <<>>
    /\ background = <<>>
    /\ run = IdleRun
    /\ last = [task |-> "", round |-> 0, pc |-> "idle", before |-> NoFiles,
               rounds_before |-> <<>>, files |-> <<>>, pushed |-> 0,
               after |-> NoFiles]
    /\ repos = {}
    /\ files = [t \in Tasks |-> NoFiles]
    /\ commits = [t \in Tasks |-> 0]
    /\ pages = {}
    /\ rounds = [t \in Tasks |-> <<>>]
    /\ completed = [t \in Tasks |-> {}]
    /\ retry = IdleRetry

Init == InitService /\ prompt = NoPrompt /\ conc = NoConc

(***************************************************************************)
(* Request gateway, main.py:134-165.                                       *)
(***************************************************************************)
\* Variant: the secret is not compared.
SecretNotChecked(secret) == secret \in Secrets

\* main.py:151
SecretValid(secret) == secret = SecretKey

\* main.py:160-165
Accepted(task, round) ==
    [code |-> StatusOk, status |-> "accepted", task |-> task, round |-> round]

\* main.py:153
Unauthorized ==
    [code |-> StatusUnauthorized, status |-> "Invalid secret", task |-> "", round |-> 0]

Running == run.pc \notin {"idle", "done", "failed"}

\* No round is queued or in progress.
Quiescent == run.pc = "idle" /\ background = <<>>

Request(secret, task, round, resp, fate) ==
    [secret |-> secret, task |-> task, round |-> round, resp |-> resp, fate |-> fate]

\* Variant: the task is added a second time.
AddTaskTwice(queue, id, task, round, brief) ==
    queue \o << [req |-> id, task |-> task, round |-> round, brief |-> brief],
                [req |-> id, task |-> task, round |-> round, brief |-> brief] >>

\* main.py:158, background_tasks.add_task(process_task, task_request).
AddTask(queue, id, task, round, brief) ==
    Append(queue, [req |-> id, task |-> task, round |-> round, brief |-> brief])

handle_task(secret, task, round, brief) ==
    /\ Len(reqs) < MaxRequests
    /\ IF ~SecretValid(secret)
       THEN /\ reqs' = Append(reqs, Request(secret, task, round, Unauthorized, "rejected"))
            /\ background' = background
       ELSE /\ reqs' = Append(reqs, Request(secret, task, round,
                                            Accepted(task, round), "scheduled"))
            /\ background' = AddTask(background, Len(reqs) + 1, task, round, brief)
    /\ UNCHANGED <<run, platform, completed, retry, prompt, conc, last>>

(***************************************************************************)
(* Round orchestrator, main.py:31-119, one action per awaited call.        *)
(***************************************************************************)
Goto(pc) == [run EXCEPT !.pc = pc]

\* Variant: the exception is logged and swallowed, the run goes on.
FailedSwallowed(r, error) == [r EXCEPT !.failed_at = r.pc, !.error = error]

\* main.py:117-119, the exception of a step ends the run; nothing is undone.
Failed(r, error) == [r EXCEPT !.pc = "failed", !.failed_at = r.pc, !.error = error]

Finish(fate) == reqs' = [reqs EXCEPT ![run.req].fate = fate]

\* The steps whose remote call can raise an error the step does not handle.
\* For round >= 2 the repository step only formats a URL (main.py:75);
\* generate_readme catches every error (llm_service.py:257).
Fallible(r) ==
    \/ r.pc \in {"boot_rounds", "boot_files", "generate", "license", "push",
                 "commit", "store", "pages"}
    \/ r.pc = "repo" /\ r.round = 1

\* What is kept of the run that ended before the current one: its
\* request, its end, the repository's files and round history when it
\* started, its files when it ended, the files the run generated and how
\* many of them it pushed.
Summary(r) ==
    [task |-> r.task, round |-> r.round, pc |-> r.pc, before |-> r.before,
     rounds_before |-> r.rounds_before, files |-> r.files,
     pushed |-> IF r.idx = 0 THEN 0 ELSE r.idx - 1, after |-> files[r.task]]

\* main.py:31-39, the event loop starts the queued background task.
process_task_start ==
    /\ background # <<>>
    /\ run.pc = "idle"
    /\ LET t == Head(background) IN
       run' = [NewRun(t.req, t.task, t.round, t.brief) EXCEPT
                 !.before = files[t.task], !.rounds_before = rounds[t.task]]
    /\ background' = Tail(background)
    /\ UNCHANGED <<reqs, platform, completed, retry, prompt, conc, last>>

\* main.py:115 and 119, the coroutine returns or its exception leaves it: the
\* background task is over and its request is discarded.
process_task_end ==
    /\ run.pc \in {"done", "failed"}
    /\ run' = IdleRun
    /\ last' = Summary(run)
    /\ UNCHANGED <<reqs, background, platform, completed, retry, prompt, conc>>

step_raises ==
    /\ Running
    /\ Fallible(run)
    /\ run' = Failed([run EXCEPT !.faults = 1], "platform")
    /\ Finish("failed")
    /\ UNCHANGED <<background, platform, completed, retry, prompt, conc, last>>

\* Variant: a repository that cannot be read counts as one with no history
\* and no files, and the round goes on to the generation.
get_previous_rounds_data_lenient ==
    /\ run.pc = "boot_rounds"
    /\ run' = IF run.task \in repos
              THEN [run EXCEPT !.pc = "boot_files",
                      !.previous_rounds = PreviousRoundsData(rounds[run.task], run.round)]
              ELSE Goto("generate")
    /\ UNCHANGED <<reqs, background, platform, completed, retry, prompt, conc, last>>

\* main.py:47
get_previous_rounds_data ==
    /\ run.pc = "boot_rounds"
    /\ IF run.task \in repos
       THEN /\ run' = [run EXCEPT !.pc = "boot_files",
                         !.previous_rounds = PreviousRoundsData(rounds[run.task], run.round)]
            /\ UNCHANGED reqs
       ELSE /\ run' = Failed(run, "not_found")
            /\ Finish("failed")
    /\ UNCHANGED <<background, platform, completed, retry, prompt, conc, last>>

\* main.py:48
get_repo_files ==
    /\ run.pc = "boot_files"
    /\ IF run.task \in repos
       THEN /\ run' = [run EXCEPT !.pc = "generate", !.repo_files = files[run.task]]
            /\ UNCHANGED reqs
       ELSE /\ run' = Failed(run, "not_found")
            /\ Finish("failed")
    /\ UNCHANGED <<background, platform, completed, retry, prompt, conc, last>>

\* main.py:51-58, llm_service.py:18-57
generate_app ==
    /\ run.pc = "generate"
    /\ \E out \in GenOutputs :
         IF HasRootPage(out)
         THEN /\ run' = [run EXCEPT !.pc = "readme", !.files = out]
              /\ UNCHANGED reqs
         ELSE /\ run' = Failed([run EXCEPT !.faults = 1], "ValueError")
              /\ Finish("failed")
    /\ UNCHANGED <<background, platform, completed, retry, prompt, conc, last>>

\* Variant: the error of the backend is raised to the round.
GenerateReadmeRaises(task_name, brief, round_num, backend) ==
    IF backend = "ok"
    THEN [raised |-> "", readme |-> LLMReadme]
    ELSE [raised |-> "Exception", readme |-> Absent]

\* llm_service.py:219-259: the text of the backend, or the fallback when
\* the call of the backend raised.
GenerateReadme(task_name, brief, round_num, backend) ==
    IF backend = "ok"
    THEN [raised |-> "", readme |-> LLMReadme]
    ELSE [raised |-> "", readme |-> FallbackReadme(task_name, brief, round_num)]

\* main.py:61-66, llm_service.py:219-259
generate_readme ==
    /\ run.pc = "readme"
    /\ \E backend \in {"ok", "error"} :
         LET res == GenerateReadme(run.task, run.brief, run.round, backend)
             called == [run EXCEPT !.faults = IF backend = "ok" THEN @ ELSE 1] IN
         IF res.raised = ""
         THEN /\ run' = [called EXCEPT !.pc = "repo",
                                       !.files = SetReadme(run.files, res.readme)]
              /\ UNCHANGED reqs
         ELSE /\ run' = Failed(called, res.raised)
              /\ Finish("failed")
    /\ UNCHANGED <<background, platform, completed, retry, prompt, conc, last>>

\* One more commit on the repository of `task`.
Commit(task) == commits' = [commits EXCEPT ![task] = @ + 1]

\* What user.get_repo(repo_name) meets on the account's repositories `rs`:
\* the repository, the 404 of a missing one, a GithubException of another
\* status, or an error that is not a GithubException.
GetRepoOutcomes(rs, repo_name) ==
    {IF repo_name \in rs THEN "found" ELSE "404"} \cup {"GithubException", "Exception"}

\* user.create_repo(name, ...): refused when the account has the name.
CreateRepo(rs, repo_name) ==
    IF repo_name \in rs
    THEN [raised |-> "GithubException", url |-> NoUrl, repos |-> rs, created |-> 1]
    ELSE [raised |-> "", url |-> HtmlUrl(Account, repo_name),
          repos |-> rs \cup {repo_name}, created |-> 1]

\* Variant: the repository is created without being looked up first.
CreateRepositoryNoLookup(rs, repo_name, lookup) == CreateRepo(rs, repo_name)

\* Variant: every failure of the lookup is taken for the not-found signal.
CreateRepositoryOnAnyError(rs, repo_name, lookup) ==
    IF lookup = "found"
    THEN [raised |-> "", url |-> HtmlUrl(Account, repo_name), repos |-> rs, created |-> 0]
    ELSE CreateRepo(rs, repo_name)

\* github_service.py:16-46 when the lookup met `lookup`: the URL of the
\* repository found, a new repository on the 404, the error otherwise.
CreateRepository(rs, repo_name, lookup) ==
    CASE lookup = "found" ->
           [raised |-> "", url |-> HtmlUrl(Account, repo_name), repos |-> rs, created |-> 0]
      [] lookup = "404" -> CreateRepo(rs, repo_name)
      [] OTHER -> [raised |-> lookup, url |-> NoUrl, repos |-> rs, created |-> 0]

\* main.py:69-75, github_service.py:16-46
create_repository ==
    /\ run.pc = "repo"
    /\ IF run.round = 1
       THEN \E lookup \in GetRepoOutcomes(repos, run.task) :
              LET res == CreateRepository(repos, run.task, lookup)
                  called == [run EXCEPT !.lookup = lookup, !.create_calls = @ + res.created] IN
              /\ repos' = res.repos
              /\ IF res.raised = ""
                 THEN /\ run' = [called EXCEPT !.pc = "license", !.repo_url = res.url]
                      /\ UNCHANGED reqs
                 ELSE /\ run' = Failed([called EXCEPT !.faults = 1], res.raised)
                      /\ Finish("failed")
       ELSE /\ run' = [run EXCEPT !.pc = "license",
                         !.repo_url = RepoUrlPattern(run.task)]
            /\ UNCHANGED <<repos, reqs>>
    /\ UNCHANGED <<background, files, commits, pages, rounds, completed, retry, prompt, conc, last>>

\* main.py:78, github_service.py:121-173
add_mit_license ==
    /\ run.pc = "license"
    /\ LET res == UpsertFile(files[run.task], LicensePath, MitLicense) IN
       IF run.task \in repos /\ res.ok
       THEN /\ files' = [files EXCEPT ![run.task] = res.files]
            /\ Commit(run.task)
            /\ run' = [run EXCEPT !.pc = "push", !.idx = 1]
            /\ UNCHANGED reqs
       ELSE /\ run' = Failed(run, "GithubException")
            /\ Finish("failed")
            /\ UNCHANGED <<files, commits>>
    /\ UNCHANGED <<background, repos, pages, rounds, completed, retry, prompt, conc, last>>

\* main.py:82, github_service.py:53-82, one pass of the loop over the files.
push_files ==
    /\ run.pc = "push"
    /\ run.idx <= Len(run.files)
    /\ LET f == run.files[run.idx]
           res == UpsertFile(files[run.task], f.path, f.content) IN
       IF run.task \in repos /\ res.ok
       THEN /\ files' = [files EXCEPT ![run.task] = res.files]
            /\ Commit(run.task)
            /\ run' = [run EXCEPT !.idx = @ + 1]
            /\ UNCHANGED reqs
       ELSE /\ run' = Failed(run, "GithubException")
            /\ Finish("failed")
            /\ UNCHANGED <<files, commits>>
    /\ UNCHANGED <<background, repos, pages, rounds, completed, retry, prompt, conc, last>>

\* Variant: the latest commit of the account, whatever the repository: the
\* commits of every repository are counted.
LatestCommitOfAccount(task) ==
    commits[task] + commits[CHOOSE t \in Tasks : t # task]

\* Variant: the commit before the latest one is read.
LatestCommitButOne(task) == commits[task] - 1

\* github_service.py:84-89, the latest commit once every file is pushed.
LatestCommit(task) == commits[task]

\* Variant: the latest commit is read without waiting for the loop to end.
push_files_commit_early ==
    /\ run.pc = "push"
    /\ run' = [run EXCEPT !.pc = "store", !.commit_sha = LatestCommit(run.task)]
    /\ UNCHANGED <<reqs, background, platform, completed, retry, prompt, conc, last>>

\* Variant: the round goes from the commit to the deployment, and its
\* Round Record is not persisted.
push_files_commit_skips_store ==
    /\ run.pc = "push"
    /\ run.idx > Len(run.files)
    /\ run' = [run EXCEPT !.pc = "pages", !.commit_sha = LatestCommit(run.task)]
    /\ UNCHANGED <<reqs, background, platform, completed, retry, prompt, conc, last>>

\* github_service.py:84-89
push_files_commit ==
    /\ run.pc = "push"
    /\ run.idx > Len(run.files)
    /\ run' = [run EXCEPT !.pc = "store", !.commit_sha = LatestCommit(run.task)]
    /\ UNCHANGED <<reqs, background, platform, completed, retry, prompt, conc, last>>

\* main.py:85-91
store_round_data ==
    /\ run.pc = "store"
    /\ IF run.task \in repos
       THEN /\ rounds' = [rounds EXCEPT ![run.task] =
                             StoreRoundData(@, run.round, run.brief)]
            /\ Commit(run.task)
            /\ run' = Goto("pages")
            /\ UNCHANGED reqs
       ELSE /\ run' = Failed(run, "not_found")
            /\ Finish("failed")
            /\ UNCHANGED <<rounds, commits>>
    /\ UNCHANGED <<background, repos, files, pages, completed, retry, prompt, conc, last>>

\* What repo.create_pages_site meets on the repositories `ps` that have a
\* site: the site is created, the platform answers that it is already
\* enabled, or refuses with another GithubException, or the call raises an
\* error that is not a GithubException.
CreatePagesOutcomes(ps, repo_name) ==
    {IF repo_name \in ps THEN "already enabled" ELSE "created"}
        \cup {"GithubException", "Exception"}

\* Variant: only the "already enabled" answer is absorbed.
EnablePagesStrict(ps, repo_name, outcome) ==
    CASE outcome = "created" ->
           [raised |-> "", url |-> PagesUrl(repo_name), pages |-> ps \cup {repo_name}]
      [] outcome = "already enabled" ->
           [raised |-> "", url |-> PagesUrl(repo_name), pages |-> ps]
      [] OTHER -> [raised |-> outcome, url |-> NoUrl, pages |-> ps]

\* github_service.py:102-119 once the repository was found: a
\* GithubException of create_pages_site is logged, whatever it says, and the
\* constructed URL is returned; any other error is raised.
EnablePages(ps, repo_name, outcome) ==
    CASE outcome = "created" ->
           [raised |-> "", url |-> PagesUrl(repo_name), pages |-> ps \cup {repo_name}]
      [] outcome \in {"already enabled", "GithubException"} ->
           [raised |-> "", url |-> PagesUrl(repo_name), pages |-> ps]
      [] OTHER -> [raised |-> outcome, url |-> NoUrl, pages |-> ps]

\* main.py:94, github_service.py:95-119
enable_github_pages ==
    /\ run.pc = "pages"
    /\ IF run.task \in repos
       THEN \E outcome \in CreatePagesOutcomes(pages, run.task) :
              LET res == EnablePages(pages, run.task, outcome)
                  called == [run EXCEPT !.faults =
                               IF outcome \in {"GithubException", "Exception"}
                               THEN 1 ELSE @] IN
              /\ pages' = res.pages
              /\ IF res.raised = ""
                 THEN /\ run' = [called EXCEPT !.pc = "settle", !.pages_url = res.url]
                      /\ UNCHANGED reqs
                 ELSE /\ run' = Failed(called, res.raised)
                      /\ Finish("failed")
       ELSE /\ run' = Failed(run, "not_found")
            /\ Finish("failed")
            /\ UNCHANGED pages
    /\ UNCHANGED <<background, repos, files, commits, rounds, completed, retry, prompt, conc, last>>

\* main.py:97
settle ==
    /\ run.pc = "settle"
    /\ run' = [run EXCEPT !.pc = "notify", !.attempt_number = 1]
    /\ UNCHANGED <<reqs, background, platform, completed, retry, prompt, conc, last>>

\* main.py:100-108
EvaluationData(r) ==
    [task |-> r.task, round |-> r.round, repo_url |-> r.repo_url,
     commit_sha |-> r.commit_sha, pages_url |-> r.pages_url]

\* The classes of the status of the response to a POST.
StatusClasses == {"2xx", "3xx", "4xx-5xx"}

\* What a POST attempt meets: a response, or an exception of the client.
Replies == StatusClasses \cup (ErrKinds \ {"status"})

\* Variant: the status of the response is not looked at.
RaiseForStatusNever(status) == {"ok"}

\* evaluator.py:28, response.raise_for_status(): returns for a 2xx
\* response, raises httpx.HTTPStatusError for a 4xx or 5xx one; whether a
\* redirect raises depends on the httpx release installed.
RaiseForStatus(status) ==
    IF status = "2xx" THEN {"ok"}
    ELSE IF status = "3xx" THEN {"ok", "status"}
    ELSE {"status"}

\* evaluator.py:19-37, the outcomes of one invocation that met `reply`.
PostOutcomes(reply) ==
    IF reply \in StatusClasses THEN RaiseForStatus(reply) ELSE {reply}

\* main.py:110-115, evaluator.py:14-37: one attempt of the retried POST.
send_evaluation ==
    /\ run.pc = "notify"
    /\ \E reply \in Replies : \E outcome \in PostOutcomes(reply) :
         LET sent == [run EXCEPT !.posts = @ + 1, !.body = EvaluationData(run),
                                 !.faults = IF outcome = "ok" THEN @ ELSE 1]
             decision == RetryDecision(outcome, run.attempt_number, MaxAttempts) IN
         CASE decision = "return" ->
                /\ run' = [sent EXCEPT !.pc = "done", !.delivered = 1,
                                       !.status = reply]
                /\ completed' = [completed EXCEPT ![run.task] = @ \cup {run.round}]
                /\ Finish("done")
           [] decision = "sleep" ->
                /\ run' = [sent EXCEPT !.attempt_number = @ + 1]
                /\ UNCHANGED <<reqs, completed>>
           [] decision = "retry_error" ->
                /\ run' = Failed(sent, "RetryError")
                /\ Finish("failed")
                /\ UNCHANGED completed
           [] OTHER ->
                /\ run' = Failed(sent, outcome)
                /\ Finish("failed")
                /\ UNCHANGED completed
    /\ UNCHANGED <<background, platform, retry, prompt, conc, last>>

process_task ==
    \/ get_previous_rounds_data
    \/ get_repo_files
    \/ generate_app
    \/ generate_readme
    \/ create_repository
    \/ add_mit_license
    \/ push_files
    \/ push_files_commit
    \/ store_round_data
    \/ enable_github_pages
    \/ settle
    \/ send_evaluation
    \/ step_raises

\* Requests arrive one at a time, each after the previous round ended.
Next ==
    \/ \E secret \in Secrets, task \in Submitted, round \in Rounds, brief \in Briefs :
         Quiescent /\ handle_task(secret, task, round, brief)
    \/ process_task_start
    \/ process_task
    \/ process_task_end

Spec == Init /\ [][Next]_vars

(***************************************************************************)
(* The round of one request under fair scheduling: the event loop runs a   *)
(* queued background task and resumes it after every awaited call.         *)
(***************************************************************************)
LiveRequests == 2
\* The inputs of a prompt: files of the repository, prior Round Records,
\* checks of one record.
MaxPromptFiles == 2
MaxPriorRounds == 2
MaxChecks == 2

LiveNext ==
    \/ \E secret \in Secrets, task \in Submitted, round \in Rounds, brief \in Briefs :
         Quiescent /\ Len(reqs) < LiveRequests /\ handle_task(secret, task, round, brief)
    \/ process_task_start
    \/ process_task
    \/ process_task_end

LiveSpec ==
    /\ Init
    /\ [][LiveNext]_vars
    /\ WF_vars(process_task_start)
    /\ WF_vars(process_task)

(***************************************************************************)
(* A call through create_retry_decorator(max_attempts=10) of an operation  *)
(* that returns or raises an error of any kind on each invocation.         *)
(*   errors   the kinds of the errors the operation raised, in order       *)
(*   sleeps   the delays slept between attempts                            *)
(*   raised   the exception the wrapped call delivered: its type, and the  *)
(*            invocation whose error it is (or wraps)                      *)
(***************************************************************************)
SuccessValue == "True"

retry_call ==
    /\ retry.state = "idle"
    /\ retry' = [retry EXCEPT !.state = "attempt", !.attempt_number = 1]
    /\ UNCHANGED <<reqs, background, run, last, platform, completed, prompt, conc>>

retry_attempt ==
    /\ retry.state = "attempt"
    /\ \E outcome \in {"ok"} \cup ErrKinds :
         LET called == [retry EXCEPT !.calls = @ + 1,
                           !.errors = IF outcome = "ok" THEN @ ELSE Append(@, outcome)]
             decision == RetryDecision(outcome, retry.attempt_number, MaxAttempts) IN
         CASE decision = "return" ->
                retry' = [called EXCEPT !.state = "returned", !.result = SuccessValue]
           [] decision = "sleep" ->
                retry' = [called EXCEPT !.attempt_number = @ + 1,
                            !.sleeps = Append(@, WaitExponential(retry.attempt_number))]
           [] decision = "retry_error" ->
                retry' = [called EXCEPT !.state = "raised",
                            !.raised = <<"RetryError", called.calls>>]
           [] OTHER ->
                retry' = [called EXCEPT !.state = "raised",
                            !.raised = <<outcome, called.calls>>]
    /\ UNCHANGED <<reqs, background, run, last, platform, completed, prompt, conc>>

RetryNext == retry_call \/ retry_attempt

RetrySpec == Init /\ [][RetryNext]_vars

(***************************************************************************)
(* Prompt assembly, llm_service.py:59-217.  A text is a sequence of        *)
(* characters; a prompt is the sequence of the pieces that the code        *)
(* concatenates, each a text, so a piece of the prompt is a substring of   *)
(* the string the code builds.  Fixed wording is one character long here.  *)
(***************************************************************************)
\* llm_service.py:182
DisplayLimit == 5000

TruncationMarker == "\n... (truncated)"

\* A content of n characters whose last character differs from the others.
Content(n) == [i \in 1..n |-> IF i = n THEN "z" ELSE "a"]

\* The lengths around the limit, and the empty content.
ContentLengths == {0, DisplayLimit - 1, DisplayLimit, DisplayLimit + 1}

PromptPaths == {RootPage, "app.js"}

\* The current files as get_repo_files returns them: a mapping in
\* insertion order, no path twice.
RepoFileSeqs ==
    {fs \in UNION {[1..n -> [path : PromptPaths, content : {Content(k) : k \in ContentLengths}]] :
                     n \in 0..MaxPromptFiles} :
        \A i, j \in 1..Len(fs) : fs[i].path = fs[j].path => i = j}

PriorCheckNames == <<"prior check 1", "prior check 2", "prior check 3">>

\* The lists of checks of a prior record: the first n names.
CheckSeqs == {SubSeq(PriorCheckNames, 1, n) : n \in 0..MaxChecks}

\* The prior records as get_previous_rounds_data returns them: rounds 1..n.
PriorRoundSeqs ==
    UNION {{[k \in 1..n |-> [round |-> k, brief |-> "counter app", checks |-> cs[k]]] :
              cs \in [1..n -> CheckSeqs]} : n \in 0..MaxPriorRounds}

CurrentCheckSeqs == {<<>>, <<"current check">>}

\* Variant: a content of exactly the limit is shown whole, without marker.
DisplayContentOverLimitOnly(content) ==
    IF Len(content) <= DisplayLimit
    THEN content
    ELSE SubSeq(content, 1, DisplayLimit) \o <<TruncationMarker>>

\* llm_service.py:182
DisplayContent(content) ==
    IF Len(content) < DisplayLimit
    THEN content
    ELSE SubSeq(content, 1, DisplayLimit) \o <<TruncationMarker>>

\* llm_service.py:89-100; the item numbers are left out.
ChecksInfo(checks) ==
    IF checks = <<>> THEN <<>>
    ELSE <<<<"=== MANDATORY CHECKS ===">>>>
           \o [i \in 1..Len(checks) |-> <<"check: ", checks[i]>>]

\* llm_service.py:167-172, the pieces of one prior record.
PrevRoundPieces(prev_round) ==
    <<<<"--- Round ---">>, <<"Brief: ", prev_round.brief>>>>
      \o (IF prev_round.checks = <<>> THEN <<>>
          ELSE <<<<"Required Checks (must still pass):">>>>
                 \o [i \in 1..Len(prev_round.checks) |-> <<"  check ", prev_round.checks[i]>>])

RECURSIVE HistoryPieces(_)
HistoryPieces(previous_rounds) ==
    IF previous_rounds = <<>> THEN <<>>
    ELSE PrevRoundPieces(Head(previous_rounds)) \o HistoryPieces(Tail(previous_rounds))

\* llm_service.py:183, the pieces of one file.
FilePieces(file) == <<<<"File: ", file.path>>, DisplayContent(file.content)>>

RECURSIVE RepoPieces(_)
RepoPieces(repo_files) ==
    IF repo_files = <<>> THEN <<>>
    ELSE FilePieces(Head(repo_files)) \o RepoPieces(Tail(repo_files))

\* llm_service.py:59-217
CreatePrompt(brief, round_num, previous_rounds, repo_files, checks) ==
    IF round_num = 1
    THEN <<<<"Create a complete, fully functional web application">>, <<brief>>>>
           \o ChecksInfo(checks) \o <<<<"=== OUTPUT FORMAT ===">>>>
    ELSE <<<<"Update the existing web application">>, <<brief>>>>
           \o ChecksInfo(checks)
           \o (IF previous_rounds = <<>> THEN <<>>
               ELSE <<<<"=== PREVIOUS ROUNDS HISTORY ===">>>> \o HistoryPieces(previous_rounds))
           \o (IF repo_files = <<>> THEN <<>>
               ELSE <<<<"=== CURRENT REPOSITORY CODE ===">>>> \o RepoPieces(repo_files))
           \o <<<<"=== OUTPUT FORMAT ===">>>>

\* A call of _create_prompt with some brief, round, history, files and checks.
PromptInit ==
    /\ InitService
    /\ conc = NoConc
    /\ \E round_num \in Rounds, previous_rounds \in PriorRoundSeqs,
          repo_files \in RepoFileSeqs, checks \in CurrentCheckSeqs :
         prompt = [NoPrompt EXCEPT !.state = "called", !.brief = "counter app",
                     !.round_num = round_num, !.previous_rounds = previous_rounds,
                     !.repo_files = repo_files, !.checks = checks]

create_prompt ==
    /\ prompt.state = "called"
    /\ prompt' = [prompt EXCEPT !.state = "returned",
                     !.text = CreatePrompt(prompt.brief, prompt.round_num,
                                           prompt.previous_rounds, prompt.repo_files,
                                           prompt.checks)]
    /\ UNCHANGED <<reqs, background, run, last, platform, completed, retry, conc>>

PromptNext == create_prompt

PromptSpec == PromptInit /\ [][PromptNext]_vars

(***************************************************************************)
(* Properties of the retry policy, checked under RetrySpec.                *)
(***************************************************************************)
AllRetryable(errs) == \A i \in 1..Len(errs) : RetryIfExceptionType(errs[i])

\* The call ended by an exception after every invocation raised a retryable
\* error.
Exhausted ==
    /\ retry.state = "raised"
    /\ Len(retry.errors) = retry.calls
    /\ AllRetryable(retry.errors)

LastError == <<retry.errors[Len(retry.errors)], Len(retry.errors)>>

\* C8 as stated: when every attempt fails with a retryable error the
\* operation is invoked exactly MaxAttempts times and the caller receives the
\* last error the operation raised.
C8_LastErrorDelivered ==
    Exhausted => retry.calls = MaxAttempts /\ retry.raised = LastError

\* C8: when every attempt fails with a retryable error the operation is
\* invoked exactly MaxAttempts times, never more, and the caller receives a
\* RetryError that wraps the last invocation's error (reraise is not set),
\* not that error itself.
C8_ExhaustionRaisesRetryError ==
    /\ retry.calls <= MaxAttempts
    /\ Exhausted =>
         /\ retry.calls = MaxAttempts
         /\ retry.raised = <<"RetryError", MaxAttempts>>
         /\ retry.raised # LastError

C8_Witness == Exhausted /\ retry.calls = MaxAttempts

NonDecreasing(seq) == \A i \in 1..Len(seq) - 1 : seq[i] <= seq[i + 1]

\* C9: an operation that fails with a transient error 3 times and then
\* succeeds makes the wrapped call return the success value after exactly 4
\* invocations, with 3 delays that are non-decreasing and at most WaitMax.
C9_SuccessAfterThreeFailures ==
    (retry.state = "returned" /\ Len(retry.errors) = 3) =>
        /\ retry.result = SuccessValue
        /\ retry.calls = 4
        /\ Len(retry.sleeps) = 3
        /\ NonDecreasing(retry.sleeps)
        /\ \A i \in 1..Len(retry.sleeps) : retry.sleeps[i] <= WaitMax

C9_Witness ==
    retry.state = "returned" /\ Len(retry.errors) = 3 /\ retry.calls = 4

\* The invocation that raised an error of kind `kind` was the last one and
\* its error reached the caller unchanged.
EndsCall(i) ==
    /\ retry.calls = i
    /\ retry.state = "raised"
    /\ retry.raised = <<retry.errors[i], i>>

\* C10 as stated: an error that is not a transport or connection error is
\* never retried.
C10_OnlyTransportRetried ==
    \A i \in 1..Len(retry.errors) :
        retry.errors[i] \notin {"transport", "connection"} => EndsCall(i)

\* C10: an error that is neither an httpx.HTTPError (a transport error or an
\* error-status response) nor a ConnectionError is never retried: the
\* invocation that raised it is the last one, exactly one invocation when it
\* is the first error, and it reaches the caller unchanged.
C10_NonRetryableNotRetried ==
    \A i \in 1..Len(retry.errors) :
        (~IsHTTPError(retry.errors[i]) /\ retry.errors[i] # "connection") => EndsCall(i)

C10_Witness ==
    retry.state = "raised" /\ retry.calls = 1 /\ retry.raised = <<"other", 1>>

(***************************************************************************)
(* Properties of the gateway and of the orchestrator, checked under Spec.  *)
(***************************************************************************)
\* The background runs of request i that are queued or in progress.
LiveRuns(i) ==
    Cardinality({k \in DOMAIN background : background[k].req = i})
    + (IF run.req = i /\ Running THEN 1 ELSE 0)

\* C3: a request whose secret differs from the configured one is answered 401
\* and schedules nothing: no run is ever queued or started for it, and the
\* step that handles it changes neither the queue, the run nor the platform.
C3_InvalidSecretRejected ==
    /\ [](\A i \in DOMAIN reqs : reqs[i].secret # SecretKey =>
            /\ reqs[i].resp.code = StatusUnauthorized
            /\ reqs[i].fate = "rejected"
            /\ run.req # i
            /\ LiveRuns(i) = 0)
    /\ [][(Len(reqs') > Len(reqs) /\ reqs'[Len(reqs')].secret # SecretKey)
            => UNCHANGED <<background, run, platform>>]_vars

C3_Witness ==
    \E i \in DOMAIN reqs :
        /\ reqs[i].secret # SecretKey
        /\ reqs[i].resp.code = StatusUnauthorized
        /\ \E j \in DOMAIN reqs : j > i /\ reqs[j].fate = "done"

\* C4: a request with the configured secret is answered "accepted" with its
\* task and round, and exactly one background run is scheduled for it: one is
\* queued or in progress until it ends, none afterwards.  The answer is given
\* when the run is still queued and never changes, whatever the run's end.
C4_AcceptedWithoutWaiting ==
    /\ [](\A i \in DOMAIN reqs : reqs[i].secret = SecretKey =>
            /\ reqs[i].resp = Accepted(reqs[i].task, reqs[i].round)
            /\ reqs[i].fate \in {"scheduled", "done", "failed"}
            /\ LiveRuns(i) = (IF reqs[i].fate = "scheduled" THEN 1 ELSE 0))
    /\ [][\A i \in DOMAIN reqs : reqs'[i].resp = reqs[i].resp]_vars

C4_Witness ==
    /\ \E i \in DOMAIN reqs : reqs[i].fate = "done" /\ reqs[i].resp.status = "accepted"
    /\ \E i \in DOMAIN reqs : reqs[i].fate = "failed" /\ reqs[i].resp.status = "accepted"
    /\ \E i \in DOMAIN reqs : reqs[i].fate = "scheduled" /\ reqs[i].resp.status = "accepted"
                              /\ background # <<>>

\* C6: a step that raises aborts the round: the run is failed, it executes no
\* later step, nothing was delivered and, unless it failed in the notify
\* step, nothing was posted; the failing step and everything after it leave
\* the platform as the completed steps made it (no rollback).
C6_FailureAborts ==
    /\ [](run.error # "" => run.pc = "failed")
    /\ [](run.pc = "failed" =>
            /\ run.delivered = 0
            /\ run.failed_at # "notify" => run.posts = 0)
    /\ [][(run.pc # "failed" /\ run'.pc = "failed") => platform' = platform]_vars
    /\ [][run.pc = "failed" => (platform' = platform /\ run' \in {run, IdleRun})]_vars

C6_Witness ==
    /\ run.pc = "failed"
    /\ run.failed_at = "push"
    /\ run.idx = 2
    /\ run.create_calls = 1
    /\ run.task \in repos
    /\ files[run.task][LicensePath] = MitLicense
    /\ files[run.task][RootPage] # Absent
    /\ files[run.task][ReadmePath] = Absent

(***************************************************************************)
(* Rounds after the first.                                                 *)
(***************************************************************************)
\* The run has read the repository back (main.py:46-48) and gone on.
PastBootstrap(r) ==
    /\ r.round >= 2
    /\ r.pc \notin {"idle", "boot_rounds", "boot_files"}
    /\ r.failed_at \notin {"boot_rounds", "boot_files"}

\* C2: a round 2 of a task whose round 1 completed gets exactly one Round
\* Record (that of round 1) and a non-empty set of existing files from the
\* bootstrap, never calls the repository creation, creates no repository, and
\* reports the URL of the repository round 1 created.
C2_RoundTwoReusesRepository ==
    /\ []((run.round = 2 /\ 1 \in completed[run.task] /\ PastBootstrap(run)) =>
            /\ Len(run.previous_rounds) = 1
            /\ run.previous_rounds[1].round = 1
            /\ PresentPaths(run.repo_files) # {}
            /\ run.create_calls = 0
            /\ run.task \in repos
            /\ run.pc = "done" => run.body.repo_url = HtmlUrl(Account, run.task))
    /\ [][(run.round >= 2 /\ run'.req = run.req) => repos' = repos]_vars

C2_Witness ==
    /\ run.round = 2
    /\ run.pc = "done"
    /\ 1 \in completed[run.task]
    /\ Len(run.previous_rounds) = 1
    /\ run.create_calls = 0

\* The accepted requests of task t, in arrival order.
History(t) == SelectSeq(reqs, LAMBDA q : q.task = t /\ q.fate # "rejected")

\* The first n accepted requests of t are rounds 1..n, each completed.
CompletedInOrder(t, n) ==
    /\ Len(History(t)) >= n
    /\ \A k \in 1..n : History(t)[k].round = k /\ History(t)[k].fate = "done"

\* C5: when rounds 1..N of a task were each completed once, in order, the
\* stored Round Records are exactly those of rounds 1..N, one per round, and
\* the bootstrap of round N+1 reads all N of them in round order.
C5_RecordsAfterRoundsInOrder ==
    \A t \in Tasks : \A n \in Rounds :
        /\ (CompletedInOrder(t, n) /\ Len(History(t)) = n) =>
              /\ Len(rounds[t]) = n
              /\ \A k \in 1..n : rounds[t][k].round = k
        /\ (/\ CompletedInOrder(t, n)
            /\ Len(History(t)) = n + 1
            /\ run.task = t
            /\ run.round = n + 1
            /\ PastBootstrap(run)) =>
              /\ Len(run.previous_rounds) = n
              /\ \A k \in 1..n : /\ run.previous_rounds[k].round = k
                                  /\ run.previous_rounds[k] = rounds[t][k]

C5_Witness ==
    /\ CompletedInOrder("demo", 2)
    /\ Len(History("demo")) = 3
    /\ run.round = 3
    /\ PastBootstrap(run)
    /\ Len(run.previous_rounds) = 2

(***************************************************************************)
(* A round submitted again.                                                *)
(***************************************************************************)
\* The current run repeats the round of the run that ended before it.
IsRerun == run.req # 0 /\ last.task = run.task /\ last.round = run.round

ContentIn(fileseq, path) ==
    fileseq[CHOOSE i \in 1..Len(fileseq) : fileseq[i].path = path].content

\* The files of a repository that held `fs` after one successful run that
\* generated `fileseq`: the generated paths with their contents, the
\* license, and every other path as it was.
AfterSingleRun(fs, fileseq) ==
    [p \in Paths |->
        IF HasPath(fileseq, p) THEN ContentIn(fileseq, p)
        ELSE IF p = LicensePath THEN MitLicense
        ELSE fs[p]]

OtherRounds(rs, round) == SelectSeq(rs, LAMBDA rec : rec.round # round)

\* The round history holds one record for the round of the current run,
\* with its brief, and the records of the other rounds as they were in `rs`.
OneRecordForRound(rs) ==
    /\ RecordsOf(rounds[run.task], run.round) = <<RoundRecord(run.round, run.brief)>>
    /\ OtherRounds(rounds[run.task], run.round) = OtherRounds(rs, run.round)

\* C7 as stated: once the re-run of a completed round has succeeded, the
\* repository holds the paths and contents it held after the first run,
\* and one record for the round.
C7_RerunSameAsFirstRun ==
    (run.pc = "done" /\ IsRerun /\ last.pc = "done") =>
        /\ files[run.task] = last.after
        /\ OneRecordForRound(last.rounds_before)

\* C7 amended: when the re-run generates the file set and README the run
\* before it generated, or that run had pushed no file, then after the
\* re-run succeeds the repository holds what a single successful run with
\* that output leaves (the same as after the first run when it completed)
\* and the history has one record for the round.
C7_RerunIdempotentForSameOutput ==
    (run.pc = "done" /\ IsRerun /\ (last.pushed = 0 \/ last.files = run.files)) =>
        /\ files[run.task] = AfterSingleRun(last.before, run.files)
        /\ last.pc = "done" => files[run.task] = last.after
        /\ OneRecordForRound(last.rounds_before)

\* A round 2 repeated after a run that pushed some of its files and aborted.
C7_Witness ==
    /\ run.pc = "done"
    /\ IsRerun
    /\ run.round = 2
    /\ last.pc = "failed"
    /\ last.pushed > 0
    /\ last.files = run.files
    /\ files[run.task] # last.after

(***************************************************************************)
(* Round 1 from the request to the callback.                               *)
(***************************************************************************)
\* Request i, for round 1 of "demo", was accepted and its run is queued.
QueuedRoundOne(i) ==
    \E j \in 1..Len(background) :
        /\ background[j].req = i
        /\ background[j].task = "demo"
        /\ background[j].round = 1

\* The run of request i has made one POST, which was accepted, and the
\* body it sent names the repository and the site of "demo".
PostedRoundOne(i) ==
    /\ run.req = i
    /\ run.pc = "done"
    /\ run.posts = 1
    /\ run.delivered = 1
    /\ run.body.task = "demo"
    /\ run.body.round = 1
    /\ run.body.repo_url = <<"https://github.com/", Account, "/", "demo">>
    /\ run.body.pages_url = <<"https://", Account, ".github.io/", "demo", "/">>

\* A collaborator of the run of request i has failed.
CollaboratorFailed(i) == run.req = i /\ run.faults = 1

\* C1: an accepted request for round 1 of "demo" leads, unless one of the
\* generation backend, the hosting platform or the callback fails, to one
\* POST whose body has repo_url https://github.com/{account}/demo and
\* pages_url https://{account}.github.io/demo/.
C1_RoundOneEventuallyPosts ==
    \A i \in 1..LiveRequests :
        QueuedRoundOne(i) ~> (PostedRoundOne(i) \/ CollaboratorFailed(i))

C1_Witness ==
    /\ run.pc = "done"
    /\ run.task = "demo"
    /\ run.round = 1
    /\ run.faults = 0
    /\ run.posts = 1
    /\ run.create_calls = 1
    /\ run.body.pages_url = PagesUrl("demo")

(***************************************************************************)
(* Delivery of the Evaluation Record.                                      *)
(***************************************************************************)
\* The errors the Retry Policy treats as transient.
TransientErrors == {"transport", "status", "connection"}

\* C11: a delivery succeeds only on a response whose status is not an error
\* status; a POST attempt that meets a transport error or an error status
\* ends the round only when it was the last attempt allowed, otherwise one
\* more attempt follows; after the attempt that succeeded the run makes no
\* other POST; a round is logged as completed only by the step that
\* delivered, and every round logged as completed has a delivered request.
C11_DeliveryAndCompletion ==
    /\ [](run.delivered = 1 => run.status \in {"2xx", "3xx"} /\ run.pc = "done")
    /\ [](\A t \in Tasks : \A k \in completed[t] :
            \E i \in DOMAIN reqs :
                reqs[i].task = t /\ reqs[i].round = k /\ reqs[i].fate = "done")
    /\ [][(run.pc = "notify" /\ run'.pc = "failed") =>
            \/ run.attempt_number = MaxAttempts /\ run'.error = "RetryError"
            \/ run'.error \notin TransientErrors \cup {"RetryError"}]_vars
    /\ [][(run.pc = "notify" /\ run'.pc = "notify") =>
            /\ run.attempt_number < MaxAttempts
            /\ run'.attempt_number = run.attempt_number + 1
            /\ run'.posts = run.posts + 1
            /\ run'.delivered = 0]_vars
    /\ [][run.delivered = 1 => run' = IdleRun]_vars
    /\ [][completed' # completed =>
            /\ run.pc = "notify"
            /\ run'.delivered = 1
            /\ completed' = [completed EXCEPT ![run.task] = @ \cup {run.round}]]_vars

\* A delivery on the third attempt.
C11_Witness ==
    /\ run.pc = "done"
    /\ run.delivered = 1
    /\ run.posts = 3
    /\ run.attempt_number = 3
    /\ run.round \in completed[run.task]

(***************************************************************************)
(* The repository of round 1.                                              *)
(***************************************************************************)
\* The step of the run is the call of create_repository.
CreateRepositoryStep == run.pc = "repo" /\ run.round = 1 /\ run'.req = run.req

\* C12: create_repository on a name the account already has finds the
\* repository, returns its URL and does not raise, create is not called
\* and the repositories are the same as before.
C12_ExistingRepositoryReused ==
    /\ [][(CreateRepositoryStep /\ run.task \in repos) => run'.lookup # "404"]_vars
    /\ [][(CreateRepositoryStep /\ run'.lookup = "found") =>
            /\ run.task \in repos
            /\ run'.pc = "license"
            /\ run'.error = ""
            /\ run'.repo_url = <<"https://github.com/", Account, "/", run.task>>
            /\ run'.create_calls = run.create_calls
            /\ repos' = repos]_vars
    /\ [](run.lookup = "found" => run.create_calls = 0)

C12_Witness ==
    /\ run.round = 1
    /\ run.lookup = "found"
    /\ run.pc = "done"
    /\ run.create_calls = 0
    /\ run.task \in repos

PushStep == run.pc = "push" /\ run.idx <= Len(run.files) /\ run'.req = run.req

\* The step of the run is the upsert of the license.
LicenseStep == run.pc = "license" /\ run'.req = run.req

\* C14: an upsert (of a pushed file, or of the license) leaves the path
\* holding the content just written and every other path as it was, whether
\* the path was absent (it is created) or held other content (it is
\* updated), and adds exactly one commit; the platform never refuses it, as
\* it would a second create of the path, so only a failure of the platform
\* itself ends the step in an error, and then nothing is written.
C14_UpsertTwiceKeepsLatest ==
    /\ [][(LicenseStep /\ run'.pc # "failed") =>
            /\ files' = [files EXCEPT ![run.task][LicensePath] = MitLicense]
            /\ commits' = [commits EXCEPT ![run.task] = @ + 1]]_vars
    /\ [][((PushStep \/ LicenseStep) /\ run'.pc = "failed") =>
            /\ run'.error = "platform"
            /\ files' = files
            /\ commits' = commits]_vars
    /\ [][(PushStep /\ run'.pc # "failed") =>
            LET f == run.files[run.idx] IN
            /\ files' = [files EXCEPT ![run.task][f.path] = f.content]
            /\ commits' = [commits EXCEPT ![run.task] = @ + 1]
            /\ run'.idx = run.idx + 1]_vars

\* A path pushed by an earlier run holds the other content this run pushed.
C14_Witness ==
    /\ run.pc = "push"
    /\ run.idx > 1
    /\ LET f == run.files[1] IN
       /\ run.before[f.path] \notin {Absent, f.content}
       /\ files[run.task][f.path] = f.content
       /\ commits[run.task] > Len(run.files)

(***************************************************************************)
(* Generation.                                                             *)
(***************************************************************************)
\* The step of the run is the call of generate_app.
GenerateStep == run.pc = "generate" /\ run'.req = run.req

\* C15: in every round, generate_app returns the parsed output as it is
\* when it has the root page index.html, and raises the missing-root-page
\* error when it has not; a round that failed so has written nothing to the
\* repository, created no repository and made no POST, and does nothing
\* more.
C15_RootPageRequired ==
    /\ [][(GenerateStep /\ run'.pc # "failed") =>
            /\ run'.pc = "readme"
            /\ run'.files \in GenOutputs
            /\ \E i \in 1..Len(run'.files) : run'.files[i].path = "index.html"]_vars
    /\ [][(GenerateStep /\ run'.pc = "failed") =>
            /\ run'.error \in {"ValueError", "platform"}
            /\ run'.files = <<>>
            /\ platform' = platform]_vars
    /\ [](run.error = "ValueError" =>
            /\ run.pc = "failed"
            /\ run.failed_at = "generate"
            /\ run.posts = 0
            /\ run.delivered = 0
            /\ run.create_calls = 0
            /\ files[run.task] = run.before
            /\ rounds[run.task] = run.rounds_before)
    /\ [][run.error = "ValueError" => (platform' = platform /\ run' = IdleRun)]_vars

\* The output of a round 2 lacked the root page.
C15_Witness ==
    /\ run.error = "ValueError"
    /\ run.round = 2
    /\ run.failed_at = "generate"
    /\ PresentPaths(run.repo_files) # {}
    /\ files[run.task] = run.before

\* The step of the run is the call of generate_readme.
ReadmeStep == run.pc = "readme" /\ run'.req = run.req

\* The README among the files of the run.
ReadmeOf(r) == ContentIn(r.files, ReadmePath)

\* The README of the run is the fallback for its task, brief and round.
HasFallbackReadme(r) ==
    /\ HasPath(r.files, ReadmePath)
    /\ ReadmeOf(r) = <<"fallback", r.task, r.brief, r.round>>

\* C16 as stated: README generation is the only failure a round goes on
\* after, so a run that reached the wait before the notification after a
\* collaborator failed has the fallback README.
C16_OnlySoftFailure ==
    (run.pc = "settle" /\ run.faults = 1) => HasFallbackReadme(run)

\* C16 amended: generate_readme never raises; when the backend fails it
\* returns the fallback built from task, brief and round, the other
\* generated files and the platform stay as they are, and the round goes
\* on: the README it publishes is that fallback and its notification is
\* delivered as for any other README.
C16_ReadmeFallback ==
    /\ [][ReadmeStep =>
            /\ run'.pc = "repo"
            /\ run'.error = ""
            /\ HasPath(run'.files, ReadmePath)
            /\ ReadmeOf(run') = LLMReadme \/ HasFallbackReadme(run')
            /\ \A i \in 1..Len(run.files) :
                  run.files[i].path # ReadmePath => run'.files[i] = run.files[i]
            /\ platform' = platform]_vars
    /\ [](run.pc \in {"store", "pages", "settle", "notify", "done"} =>
            files[run.task][ReadmePath] = ReadmeOf(run))

\* A round delivered with the fallback README and no other failure.
C16_Witness ==
    /\ run.pc = "done"
    /\ HasFallbackReadme(run)
    /\ files[run.task][ReadmePath] = ReadmeOf(run)
    /\ run.posts = 1
    /\ run.delivered = 1

(***************************************************************************)
(* A bootstrap that cannot read the repository.                            *)
(***************************************************************************)
BootSteps == {"boot_rounds", "boot_files"}

\* C17: a round >= 2 whose bootstrap cannot read the repository fails at
\* that step and does nothing more: it has generated nothing, created no
\* repository, written no file and no record, and made no POST; a round
\* >= 2 of a task with no repository never gets past the first read.
C17_BootstrapFailureAborts ==
    /\ [][(run.pc \in BootSteps /\ run'.pc = "failed") =>
            /\ run'.failed_at = run.pc
            /\ platform' = platform]_vars
    /\ [](run.failed_at \in BootSteps =>
            /\ run.round >= 2
            /\ run.pc = "failed"
            /\ run.files = <<>>
            /\ run.lookup = ""
            /\ run.create_calls = 0
            /\ run.posts = 0
            /\ run.delivered = 0
            /\ files[run.task] = run.before
            /\ rounds[run.task] = run.rounds_before)
    /\ [][run.failed_at \in BootSteps => (platform' = platform /\ run' = IdleRun)]_vars
    /\ []((run.round >= 2 /\ run.task \notin repos) =>
            \/ run.pc = "boot_rounds"
            \/ run.pc = "failed" /\ run.failed_at = "boot_rounds")

\* A round 2 of a task that has no repository.
C17_Witness ==
    /\ run.round = 2
    /\ run.pc = "failed"
    /\ run.failed_at = "boot_rounds"
    /\ run.error = "not_found"
    /\ run.task \notin repos

(***************************************************************************)
(* Static hosting.                                                         *)
(***************************************************************************)
\* The step of the run is the call of enable_github_pages.
PagesStep == run.pc = "pages" /\ run'.req = run.req

\* C18 as stated: no failure of the call that enables static hosting
\* aborts the round; a round ends at this step only when the repository
\* could not be looked up.
C18_PagesNeverAborts ==
    run.failed_at = "pages" => run.error \in {"platform", "not_found"}

\* C18 amended: when enable_github_pages returns it returns the URL
\* https://{account}.github.io/{repo}/ it builds itself, having enabled the
\* site or left the sites as they were, and the round goes on; on a
\* repository whose site is enabled the call changes nothing; a
\* GithubException of the enabling call, "already enabled" or any other,
\* never ends the round: the round ends at this step only on a failed
\* lookup of the repository or on an error that is not a GithubException,
\* and then the sites are as they were.
C18_PagesBestEffort ==
    /\ [][(PagesStep /\ run'.pc # "failed") =>
            /\ run'.pc = "settle"
            /\ run'.pages_url = <<"https://", Account, ".github.io/", run.task, "/">>
            /\ pages' \in {pages, pages \cup {run.task}}
            /\ <<repos, files, commits, rounds>>' = <<repos, files, commits, rounds>>]_vars
    /\ [][(PagesStep /\ run.task \in pages) => pages' = pages]_vars
    /\ [][(PagesStep /\ run'.pc = "failed") =>
            /\ run'.error \in {"platform", "not_found", "Exception"}
            /\ platform' = platform]_vars

\* The platform refused to enable the site and the round went on.
C18_Witness ==
    /\ run.pc = "notify"
    /\ run.posts = 0
    /\ run.faults = 1
    /\ ReadmeOf(run) = LLMReadme
    /\ run.task \notin pages
    /\ run.pages_url = PagesUrl(run.task)

(***************************************************************************)
(* The commit identifier of a publish batch.                               *)
(***************************************************************************)
\* The license and every file of the run are in the repository.
BatchPublished(r) ==
    /\ files[r.task][LicensePath] = MitLicense
    /\ \A i \in 1..Len(r.files) : files[r.task][r.files[i].path] = r.files[i].content

\* C19: the latest commit identifier is read only once the license upsert
\* and the upsert of every file of the round are done: at the read no file
\* of the batch is left to push, the repository holds the license and
\* every file, and the identifier read is that of the latest commit.
C19_CommitReadAfterUpserts ==
    /\ [][(run.pc = "push" /\ run'.pc = "store") =>
            /\ run.idx = Len(run.files) + 1
            /\ BatchPublished(run)
            /\ run'.commit_sha = commits[run.task]
            /\ platform' = platform]_vars
    /\ [](run.commit_sha # 0 =>
            /\ run.idx = Len(run.files) + 1
            /\ run.commit_sha >= Len(run.files) + 1)
    /\ [](run.pc \in {"license", "push"} => run.commit_sha = 0)

C19_Witness ==
    /\ run.pc = "store"
    /\ run.commit_sha = commits[run.task]
    /\ BatchPublished(run)
    /\ Len(run.files) = 3
    /\ run.idx = 4

(***************************************************************************)
(* Properties of the prompt, checked under PromptSpec.                     *)
(***************************************************************************)
\* `text` is a piece of the prompt.
HasPiece(text) == \E i \in 1..Len(prompt.text) : prompt.text[i] = text

\* `word` occurs in a piece of the prompt.
HasWord(word) ==
    \E i \in 1..Len(prompt.text) : \E j \in 1..Len(prompt.text[i]) :
        prompt.text[i][j] = word

\* The first 5000 characters of a content and the marker.
Truncated(content) ==
    [i \in 1..(DisplayLimit + 1) |->
        IF i <= DisplayLimit THEN content[i] ELSE "\n... (truncated)"]

\* C20: the prompt of a round >= 2 contains, for each of the N current
\* files, its content whole when that is shorter than 5000 characters and
\* its first 5000 characters followed by the truncation marker when it is
\* 5000 characters or longer, and contains every check of every prior
\* Round Record.
C20_PromptHasFilesAndChecks ==
    (prompt.state = "returned" /\ prompt.round_num >= 2) =>
        /\ \A i \in 1..Len(prompt.repo_files) :
              LET content == prompt.repo_files[i].content IN
              /\ HasWord(prompt.repo_files[i].path)
              /\ IF Len(content) >= DisplayLimit
                 THEN HasPiece(Truncated(content))
                 ELSE HasPiece(content)
        /\ \A k \in 1..Len(prompt.previous_rounds) :
              \A j \in 1..Len(prompt.previous_rounds[k].checks) :
                HasWord(prompt.previous_rounds[k].checks[j])

\* Two files, one of exactly 5000 characters and one longer, and two prior
\* records with checks.
C20_Witness ==
    /\ prompt.state = "returned"
    /\ prompt.round_num = 3
    /\ Len(prompt.repo_files) = 2
    /\ Len(prompt.repo_files[1].content) = DisplayLimit
    /\ Len(prompt.repo_files[2].content) = DisplayLimit + 1
    /\ Len(prompt.previous_rounds) = 2
    /\ Len(prompt.previous_rounds[2].checks) = 2
    /\ HasWord("\n... (truncated)")

(***************************************************************************)
(* The order of the steps of a round.                                      *)
(***************************************************************************)
\* Bootstrap (two reads), Generate, Document, Publish repository, License,
\* Commit, Persist round history, Deploy, Settle, Notify, and the end.
StepOrder ==
    <<"boot_rounds", "boot_files", "generate", "readme", "repo", "license",
      "push", "store", "pages", "settle", "notify", "done">>

Position(pc) == CHOOSE i \in 1..Len(StepOrder) : StepOrder[i] = pc

\* The Round Record of the run is in the history of its task.
RecordPersisted(r) ==
    \E i \in 1..Len(rounds[r.task]) : rounds[r.task][i].round = r.round

\* C22: a round starts with the bootstrap exactly when its number is >= 2,
\* and with the generation otherwise; from a step it goes only to the next
\* one of the order, to its failure, or stays in the step (the loop over the
\* files of the commit step, the attempts of the notification); so no step
\* is skipped, repeated or taken out of order, and when the first POST is
\* made the files are committed, the Round Record is persisted and the
\* static hosting was requested.
C22_StepsInOrder ==
    /\ [][(run.pc = "idle" /\ run'.pc # "idle") =>
            run'.pc = (IF run'.round >= 2 THEN "boot_rounds" ELSE "generate")]_vars
    /\ [][(run.pc \notin {"idle", "done", "failed"}
             /\ run'.pc \notin {run.pc, "failed"}) =>
            Position(run'.pc) = Position(run.pc) + 1]_vars
    /\ [][(run.pc = run'.pc /\ run' # run) => run.pc \in {"push", "notify"}]_vars
    /\ [][run.pc \in {"done", "failed"} => run'.pc = "idle"]_vars
    /\ [](run.posts > 0 =>
            /\ run.commit_sha # 0
            /\ BatchPublished(run)
            /\ RecordPersisted(run)
            /\ run.pages_url = <<"https://", Account, ".github.io/", run.task, "/">>)

\* A round 2 at its first POST.
C22_Witness ==
    /\ run.round = 2
    /\ run.pc = "done"
    /\ run.posts = 1
    /\ RecordPersisted(run)
    /\ Len(run.previous_rounds) = 1

(***************************************************************************)
(* The commit identifier of the Evaluation Record.                         *)
(***************************************************************************)
\* C23 as stated: when the Evaluation Record is sent, the commit it
\* reports is the latest commit of the repository.
C23_ReportedCommitIsLatest ==
    run.posts > 0 => run.body.commit_sha = commits[run.task]

\* C23 amended: the commit reported is the latest commit after the license
\* and file upserts of the round, read before the round's history is
\* written: when the Evaluation Record is sent the repository has exactly
\* one newer commit, that of the round's own history write.
C23_ReportedCommitPrecedesHistoryWrite ==
    /\ [](run.posts > 0 =>
            /\ run.body.commit_sha = run.commit_sha
            /\ run.body.commit_sha = commits[run.task] - 1)
    /\ [][(run.pc = "store" /\ run'.pc = "pages") =>
            /\ run.commit_sha = commits[run.task]
            /\ run'.commit_sha = run.commit_sha
            /\ commits' = [commits EXCEPT ![run.task] = @ + 1]]_vars
    /\ [][(run.pc \in {"pages", "settle", "notify"}) => commits' = commits]_vars

C23_Witness ==
    /\ run.pc = "done"
    /\ run.delivered = 1
    /\ run.body.commit_sha + 1 = commits[run.task]
    /\ run.body.commit_sha >= 3

(***************************************************************************)
(* The backoff schedule.                                                   *)
(***************************************************************************)
\* The delays of the claim, in seconds, before the attempts 2 to 10.
BackoffSchedule == <<1, 2, 4, 8, 16, 32, 60, 60, 60>>

\* C24: the delay slept before attempt k+1 is min(2^(k-1), 60) seconds,
\* that is the k-th element of 1, 2, 4, 8, 16, 32, 60, 60, 60: the first
\* delay is 1 second, each delay is twice the one before it until the cap
\* is reached, and no delay is above 60 seconds; there are at most nine
\* delays in a call.
C24_BackoffSchedule ==
    /\ Len(retry.sleeps) <= Len(BackoffSchedule)
    /\ \A k \in 1..Len(retry.sleeps) :
         /\ retry.sleeps[k] = BackoffSchedule[k]
         /\ retry.sleeps[k] = Min2(Pow(2, k - 1), 60)
         /\ retry.sleeps[k] <= 60
         /\ k = 1 => retry.sleeps[k] = 1
         /\ k > 1 => retry.sleeps[k] = Min2(2 * retry.sleeps[k - 1], 60)
    /\ Len(retry.sleeps) = retry.calls - (IF retry.state \in {"returned", "raised"} THEN 1 ELSE 0)

\* A call that failed ten times slept the nine delays.
C24_Witness ==
    /\ retry.state = "raised"
    /\ retry.calls = 10
    /\ retry.sleeps = BackoffSchedule

(***************************************************************************)
(* Publishing only creates or updates.                                     *)
(***************************************************************************)
\* The paths present in the repository of `task`.
PathsOf(task) == {p \in Paths : files[task][p] # Absent}

\* C26: no step removes a path from a repository or a record from a round
\* history, so the set of paths of a repository never shrinks; the content
\* of a path changes only in the upsert of that path by the run of that
\* repository's task (the license in the license step, the file at hand in
\* a pass of the commit loop); and a path published by an earlier round is
\* still there when a later round that did not generate it is done.
C26_PublishingNeverDeletes ==
    /\ [][\A t \in Tasks :
            /\ \A p \in Paths : files[t][p] # Absent => files'[t][p] # Absent
            /\ StoredRounds(rounds[t]) \subseteq StoredRounds(rounds'[t])]_vars
    /\ [][\A t \in Tasks : \A p \in Paths :
            files'[t][p] # files[t][p] =>
                /\ t = run.task
                /\ \/ LicenseStep /\ p = LicensePath
                   \/ PushStep /\ p = run.files[run.idx].path]_vars
    /\ [](run.pc \in {"done", "failed"} =>
            \A p \in Paths : run.before[p] # Absent => p \in PathsOf(run.task))

\* A later round whose Generated File Set has no app.js is done, and the
\* app.js of an earlier round is still in the repository.
C26_Witness ==
    /\ run.pc = "done"
    /\ run.round >= 2
    /\ ~HasPath(run.files, "app.js")
    /\ run.before["app.js"] # Absent
    /\ files[run.task]["app.js"] = run.before["app.js"]

(***************************************************************************)
(* Two runs of process_task for requests accepted at the same time, on the *)
(* one account of the platform.  Every call of the platform is a step of   *)
(* its own: the presence check of a path and the write that follows it,   *)
(* the lookup of the repository and its creation.  The backend and the     *)
(* callback answer; the platform refuses only what its state makes it      *)
(* refuse.  Runs in different worker processes interleave at every step;   *)
(* background tasks of one event loop interleave only where the running    *)
(* one is suspended.                                                       *)
(***************************************************************************)
ConcRounds == 2

\* The Generated File Set and README of a completed round 1.
FirstRoundFiles == SetReadme(<<File(RootPage, <<"llm", "v1", 0>>)>>, LLMReadme)

\* The platform after round 1 of the tasks `published` was completed.
PublishedFiles(published, task) ==
    IF task \in published
    THEN [p \in Paths |->
            IF HasPath(FirstRoundFiles, p) THEN ContentIn(FirstRoundFiles, p)
            ELSE IF p = LicensePath THEN MitLicense ELSE Absent]
    ELSE NoFiles

\* One commit for the license, one for each file, one for the Round Record.
PublishedCommits(published, task) ==
    IF task \in published THEN Len(FirstRoundFiles) + 2 ELSE 0

PublishedRounds(published, task) ==
    IF task \in published
    THEN <<RoundRecord(1, CHOOSE b \in Briefs : TRUE)>>
    ELSE <<>>

NewWorker(task, round, brief, out) ==
    [IdleWorker EXCEPT !.pc = FirstStep(round), !.task = task, !.round = round,
                       !.brief = brief, !.out = out]

\* The outputs of the backend that the generation accepts.
ValidOutputs == {out \in GenOutputs : HasRootPage(out)}

ConcInit ==
    /\ reqs = <<>>
    /\ background = <<>>
    /\ run = IdleRun
    /\ last = [task |-> "", round |-> 0, pc |-> "idle", before |-> NoFiles,
               rounds_before |-> <<>>, files |-> <<>>, pushed |-> 0,
               after |-> NoFiles]
    /\ completed = [t \in Tasks |-> {}]
    /\ retry = IdleRetry
    /\ prompt = NoPrompt
    /\ \E published \in SUBSET Tasks, colocated \in BOOLEAN,
          task \in [Workers -> Tasks], round \in [Workers -> 1..ConcRounds],
          out \in [Workers -> ValidOutputs], brief \in Briefs :
         /\ task[1] = "demo"
         /\ repos = published
         /\ pages = published
         /\ files = [t \in Tasks |-> PublishedFiles(published, t)]
         /\ commits = [t \in Tasks |-> PublishedCommits(published, t)]
         /\ rounds = [t \in Tasks |-> PublishedRounds(published, t)]
         /\ conc = [colocated |-> colocated, holder |-> 0, published |-> published,
                    runs |-> [w \in Workers |->
                                NewWorker(task[w], round[w], brief, out[w])]]

Me(w) == conc.runs[w]

\* The event loop can run `w`: no background task of the loop holds it.
Scheduled(w) == conc.colocated => conc.holder \in {0, w}

\* The awaited call of the step suspends the coroutine: the sleep
\* (main.py:97) and the POST (evaluator.py:23); the three calls of the
\* round history and of the repository's files (main.py:47, 48, 85) may.
\* The other calls of github_service.py and of llm_service.py block.
Yields(pc) == pc \in {"boot_rounds", "boot_files", "store", "settle", "notify"}

\* The run `w` becomes `r`; in one event loop it keeps the loop unless the
\* step suspended it or ended it.
Becomes(w, r) ==
    conc' = [conc EXCEPT !.runs[w] = r,
                         !.holder = IF conc.colocated /\ ~Yields(Me(w).pc)
                                       /\ r.pc \notin {"done", "failed"}
                                    THEN w ELSE 0]

\* github_service.py:62-76 and 153-165: the write that follows a presence
\* check that read `seen`: an update with the hash read, a create after the
\* 404 signal.
WriteFile(fs, path, content, seen) ==
    IF seen # Absent
    THEN UpdateFile(fs, path, content, Sha(seen))
    ELSE CreateFile(fs, path, content)

\* main.py:47
worker_get_previous_rounds_data(w) ==
    /\ Me(w).pc = "boot_rounds"
    /\ Scheduled(w)
    /\ Becomes(w, IF Me(w).task \in repos
                  THEN [Me(w) EXCEPT !.pc = "boot_files",
                          !.previous_rounds =
                              PreviousRoundsData(rounds[Me(w).task], Me(w).round)]
                  ELSE Failed(Me(w), "not_found"))
    /\ UNCHANGED <<reqs, background, run, last, platform, completed, retry, prompt>>

\* main.py:48
worker_get_repo_files(w) ==
    /\ Me(w).pc = "boot_files"
    /\ Scheduled(w)
    /\ Becomes(w, IF Me(w).task \in repos
                  THEN [Me(w) EXCEPT !.pc = "generate",
                                     !.repo_files = files[Me(w).task]]
                  ELSE Failed(Me(w), "not_found"))
    /\ UNCHANGED <<reqs, background, run, last, platform, completed, retry, prompt>>

\* main.py:51-58
worker_generate_app(w) ==
    /\ Me(w).pc = "generate"
    /\ Scheduled(w)
    /\ Becomes(w, IF HasRootPage(Me(w).out)
                  THEN [Me(w) EXCEPT !.pc = "readme", !.files = Me(w).out]
                  ELSE Failed(Me(w), "ValueError"))
    /\ UNCHANGED <<reqs, background, run, last, platform, completed, retry, prompt>>

\* main.py:61-66
worker_generate_readme(w) ==
    /\ Me(w).pc = "readme"
    /\ Scheduled(w)
    /\ LET res == GenerateReadme(Me(w).task, Me(w).brief, Me(w).round, "ok") IN
       Becomes(w, [Me(w) EXCEPT !.pc = "repo",
                                !.files = SetReadme(Me(w).files, res.readme)])
    /\ UNCHANGED <<reqs, background, run, last, platform, completed, retry, prompt>>

\* main.py:69-75, github_service.py:22-28: the lookup of the repository in
\* round 1, the formatted URL in a later round.
worker_get_repo(w) ==
    /\ Me(w).pc = "repo"
    /\ Scheduled(w)
    /\ Becomes(w,
         IF Me(w).round = 1
         THEN IF Me(w).task \in repos
              THEN [Me(w) EXCEPT !.pc = "license", !.lookup = "found",
                      !.repo_url = CreateRepository(repos, Me(w).task, "found").url]
              ELSE [Me(w) EXCEPT !.pc = "repo_create", !.lookup = "404"]
         ELSE [Me(w) EXCEPT !.pc = "license",
                            !.repo_url = RepoUrlPattern(Me(w).task)])
    /\ UNCHANGED <<reqs, background, run, last, platform, completed, retry, prompt>>

\* github_service.py:29-39: the creation after the lookup met the 404.
worker_create_repo(w) ==
    /\ Me(w).pc = "repo_create"
    /\ Scheduled(w)
    /\ LET res == CreateRepository(repos, Me(w).task, Me(w).lookup) IN
       /\ repos' = res.repos
       /\ Becomes(w, IF res.raised = ""
                     THEN [Me(w) EXCEPT !.pc = "license", !.repo_url = res.url]
                     ELSE Failed(Me(w), res.raised))
    /\ UNCHANGED <<reqs, background, run, last, files, commits, pages, rounds,
                   completed, retry, prompt>>

\* github_service.py:149-152: the presence check of the license.
worker_license_check(w) ==
    /\ Me(w).pc = "license"
    /\ Scheduled(w)
    /\ Becomes(w, IF Me(w).task \in repos
                  THEN [Me(w) EXCEPT !.pc = "license_write",
                          !.seen = GetContents(files[Me(w).task], LicensePath)]
                  ELSE Failed(Me(w), "GithubException"))
    /\ UNCHANGED <<reqs, background, run, last, platform, completed, retry, prompt>>

\* github_service.py:153-165: the write of the license.
worker_license_write(w) ==
    /\ Me(w).pc = "license_write"
    /\ Scheduled(w)
    /\ LET res == WriteFile(files[Me(w).task], LicensePath, MitLicense, Me(w).seen) IN
       IF res.ok
       THEN /\ files' = [files EXCEPT ![Me(w).task] = res.files]
            /\ Commit(Me(w).task)
            /\ Becomes(w, [Me(w) EXCEPT !.pc = "push", !.idx = 1])
       ELSE /\ Becomes(w, Failed(Me(w), "GithubException"))
            /\ UNCHANGED <<files, commits>>
    /\ UNCHANGED <<reqs, background, run, last, repos, pages, rounds, completed,
                   retry, prompt>>

\* github_service.py:56-60: the presence check of the file at hand.
worker_push_check(w) ==
    /\ Me(w).pc = "push"
    /\ Scheduled(w)
    /\ Me(w).idx <= Len(Me(w).files)
    /\ Becomes(w, [Me(w) EXCEPT !.pc = "push_write",
                     !.seen = GetContents(files[Me(w).task], Me(w).files[Me(w).idx].path)])
    /\ UNCHANGED <<reqs, background, run, last, platform, completed, retry, prompt>>

\* github_service.py:62-82: the write of the file at hand.
worker_push_write(w) ==
    /\ Me(w).pc = "push_write"
    /\ Scheduled(w)
    /\ LET f == Me(w).files[Me(w).idx]
           res == WriteFile(files[Me(w).task], f.path, f.content, Me(w).seen) IN
       IF res.ok
       THEN /\ files' = [files EXCEPT ![Me(w).task] = res.files]
            /\ Commit(Me(w).task)
            /\ Becomes(w, [Me(w) EXCEPT !.pc = "push", !.idx = @ + 1])
       ELSE /\ Becomes(w, Failed(Me(w), "GithubException"))
            /\ UNCHANGED <<files, commits>>
    /\ UNCHANGED <<reqs, background, run, last, repos, pages, rounds, completed,
                   retry, prompt>>

\* github_service.py:84-89
worker_push_commit(w) ==
    /\ Me(w).pc = "push"
    /\ Scheduled(w)
    /\ Me(w).idx > Len(Me(w).files)
    /\ Becomes(w, [Me(w) EXCEPT !.pc = "store",
                                !.commit_sha = LatestCommit(Me(w).task)])
    /\ UNCHANGED <<reqs, background, run, last, platform, completed, retry, prompt>>

\* main.py:85-91
worker_store_round_data(w) ==
    /\ Me(w).pc = "store"
    /\ Scheduled(w)
    /\ rounds' = [rounds EXCEPT ![Me(w).task] =
                     StoreRoundData(@, Me(w).round, Me(w).brief)]
    /\ Commit(Me(w).task)
    /\ Becomes(w, [Me(w) EXCEPT !.pc = "pages"])
    /\ UNCHANGED <<reqs, background, run, last, repos, files, pages, completed,
                   retry, prompt>>

\* main.py:94, github_service.py:95-119
worker_enable_github_pages(w) ==
    /\ Me(w).pc = "pages"
    /\ Scheduled(w)
    /\ LET outcome == IF Me(w).task \in pages THEN "already enabled" ELSE "created"
           res == EnablePages(pages, Me(w).task, outcome) IN
       /\ pages' = res.pages
       /\ Becomes(w, [Me(w) EXCEPT !.pc = "settle", !.pages_url = res.url])
    /\ UNCHANGED <<reqs, background, run, last, repos, files, commits, rounds,
                   completed, retry, prompt>>

\* main.py:97
worker_settle(w) ==
    /\ Me(w).pc = "settle"
    /\ Scheduled(w)
    /\ Becomes(w, [Me(w) EXCEPT !.pc = "notify"])
    /\ UNCHANGED <<reqs, background, run, last, platform, completed, retry, prompt>>

\* main.py:100-115, the POST that the callback answers with a 2xx.
worker_send_evaluation(w) ==
    /\ Me(w).pc = "notify"
    /\ Scheduled(w)
    /\ Becomes(w, [Me(w) EXCEPT !.pc = "done", !.delivered = 1,
                                !.body = EvaluationData(Me(w))])
    /\ UNCHANGED <<reqs, background, run, last, platform, completed, retry, prompt>>

worker_process_task(w) ==
    \/ worker_get_previous_rounds_data(w)
    \/ worker_get_repo_files(w)
    \/ worker_generate_app(w)
    \/ worker_generate_readme(w)
    \/ worker_get_repo(w)
    \/ worker_create_repo(w)
    \/ worker_license_check(w)
    \/ worker_license_write(w)
    \/ worker_push_check(w)
    \/ worker_push_write(w)
    \/ worker_push_commit(w)
    \/ worker_store_round_data(w)
    \/ worker_enable_github_pages(w)
    \/ worker_settle(w)
    \/ worker_send_evaluation(w)

ConcNext == \E w \in Workers : worker_process_task(w)

ConcSpec == ConcInit /\ [][ConcNext]_vars

(***************************************************************************)
(* Concurrent runs for different tasks.                                    *)
(***************************************************************************)
RECURSIVE PushFrom(_, _, _)
\* The files of a repository after the upserts of fileseq[i], ..., in order.
PushFrom(fs, fileseq, i) ==
    IF i > Len(fileseq) THEN fs
    ELSE PushFrom(UpsertFile(fs, fileseq[i].path, fileseq[i].content).files,
                  fileseq, i + 1)

\* How the request of the run `r` ends when it runs alone on the platform
\* the two requests found: its end, the files and the round history of its
\* repository, and the Evaluation Record delivered.
RunsAlone(r) ==
    LET fs0 == PublishedFiles(conc.published, r.task)
        generated == SetReadme(r.out,
                        GenerateReadme(r.task, r.brief, r.round, "ok").readme) IN
    IF r.round >= 2 /\ r.task \notin conc.published
    THEN [pc |-> "failed", files |-> fs0,
          rounds |-> PublishedRounds(conc.published, r.task),
          delivered |-> 0, body |-> IdleRun.body]
    ELSE [pc |-> "done",
          files |-> PushFrom(UpsertFile(fs0, LicensePath, MitLicense).files,
                             generated, 1),
          rounds |-> StoreRoundData(PublishedRounds(conc.published, r.task),
                                    r.round, r.brief),
          delivered |-> 1,
          body |-> [task |-> r.task, round |-> r.round,
                    repo_url |-> HtmlUrl(Account, r.task),
                    commit_sha |-> PublishedCommits(conc.published, r.task)
                                     + 1 + Len(generated),
                    pages_url |-> PagesUrl(r.task)]]

Ended(r) == r.pc \in {"done", "failed"}

\* The runs next to `w` that are for the same task.
Peers(w) == {v \in Workers \ {w} : Me(v).task = Me(w).task}

\* C21: under every interleaving a step of a run leaves the repository,
\* the commits, the round history and the site of every task but its own
\* as they were, and a run whose task no other run has ended, when it has
\* ended, as it does alone: with the same files and round history in its
\* task's repository and the same Evaluation Record delivered (or none).
C21_DistinctTasksIndependent ==
    /\ [][\A w \in Workers :
            conc'.runs[w] # conc.runs[w] =>
                \A t \in Tasks \ {Me(w).task} :
                    /\ files'[t] = files[t]
                    /\ commits'[t] = commits[t]
                    /\ rounds'[t] = rounds[t]
                    /\ (t \in repos') = (t \in repos)
                    /\ (t \in pages') = (t \in pages)]_vars
    /\ [](\A w \in Workers :
                (Peers(w) = {} /\ Ended(Me(w))) =>
                    /\ Me(w).pc = RunsAlone(Me(w)).pc
                    /\ files[Me(w).task] = RunsAlone(Me(w)).files
                    /\ rounds[Me(w).task] = RunsAlone(Me(w)).rounds
                    /\ Me(w).delivered = RunsAlone(Me(w)).delivered
                    /\ Me(w).body = RunsAlone(Me(w)).body)

\* Two runs for different tasks, in different processes, both delivered
\* their Evaluation Record, one for a round 1 and one for a round 2.
C21_Witness ==
    /\ Peers(1) = {} /\ Peers(2) = {}
    /\ ~conc.colocated
    /\ Me(1).pc = "done" /\ Me(1).round = 1
    /\ Me(2).pc = "done" /\ Me(2).round = 2
    /\ Me(1).body.commit_sha # Me(2).body.commit_sha

(***************************************************************************)
(* Concurrent runs for the same task.                                      *)
(***************************************************************************)
\* The step is the write of run `w` that follows its presence check.
Writing(w) ==
    /\ Me(w).pc \in {"license_write", "push_write"}
    /\ conc'.runs[w] # Me(w)

WrittenPath(r) ==
    IF r.pc = "license_write" THEN LicensePath ELSE r.files[r.idx].path

WrittenContent(r) ==
    IF r.pc = "license_write" THEN MitLicense ELSE r.files[r.idx].content

\* The write of run `w` was refused by the platform.
Rejected(r) ==
    /\ r.pc = "failed"
    /\ r.failed_at \in {"license_write", "push_write"}

\* C25: a write is accepted exactly when the path still holds what the
\* presence check of the run read (the content whose hash it carries, or
\* nothing for a create), and then the path holds the content written;
\* otherwise the platform refuses it, nothing is written, and the run ends
\* in the error, for good: it reads nothing again and no Evaluation Record
\* is sent for it.  So the content of a path is only ever replaced by a
\* write that read that content.  A write is refused only when another
\* run for the same task, in another process, wrote the path between the
\* check and the write.
C25_StaleWriteRejected ==
    /\ [][\A w \in Workers :
            Writing(w) =>
                LET r == Me(w)
                    current == files[r.task][WrittenPath(r)] IN
                IF Sha(r.seen) = Sha(current)
                THEN /\ files' = [files EXCEPT
                                    ![r.task][WrittenPath(r)] = WrittenContent(r)]
                     /\ conc'.runs[w].pc = "push"
                ELSE /\ files' = files
                     /\ commits' = commits
                     /\ Rejected(conc'.runs[w])
                     /\ conc'.runs[w].error = "GithubException"]_vars
    /\ [][\A t \in Tasks : \A p \in Paths :
            files'[t][p] # files[t][p] =>
                \E w \in Workers :
                    /\ Writing(w)
                    /\ Me(w).task = t
                    /\ WrittenPath(Me(w)) = p
                    /\ Sha(Me(w).seen) = Sha(files[t][p])]_vars
    /\ [][\A w \in Workers : Me(w).pc = "failed" => conc'.runs[w] = Me(w)]_vars
    /\ [](\A w \in Workers :
            Rejected(Me(w)) =>
                /\ Me(w).delivered = 0
                /\ Me(w).body = IdleRun.body
                /\ Me(w).commit_sha = 0
                /\ Peers(w) # {}
                /\ ~conc.colocated)

\* Both runs read the same path holding the content of round 1; one wrote
\* other content and went on to deliver its Evaluation Record; the update
\* of the other, carrying the hash of the content of round 1, was refused.
C25_Witness ==
    \E w \in Workers :
        /\ Rejected(Me(w))
        /\ Me(w).failed_at = "push_write"
        /\ Me(w).seen # Absent
        /\ Me(w).seen # files[Me(w).task][WrittenPath([Me(w) EXCEPT !.pc = "push_write"])]
        /\ Me(w).delivered = 0
        /\ \E v \in Peers(w) : Me(v).pc = "done"

=============================================================================
